---- MODULE Spec2Model ----
(***************************************************************************)
(* Model of the resilience layer of src/services/claudeService.js: request *)
(* validation, the circuit breaker, the retry loop with backoff, and the   *)
(* token usage tracker, as driven by concurrent sendMessage calls on the   *)
(* Node.js event loop.  Every action is one run-to-completion turn of the  *)
(* event loop: the code between two awaits.                                *)
(*                                                                         *)
(* Time is in milliseconds, counted from module load.  Numbers that may    *)
(* carry a fraction (temperature, maxTokens as supplied) are held in       *)
(* thousandths ("milli").                                                  *)
(***************************************************************************)
EXTENDS Integers, Sequences, FiniteSets, TLC

----------------------------------------------------------------------------
(* Bounds of the model *)

\* number of sendMessage calls that can be in flight at once
NumCallers == 2
\* Spec: sendMessage invocations, transport calls and clock steps in one behaviour
MaxStarts == 4
MaxSent == 7
MaxTicks == 1
\* SpecRetry: sendMessage invocations and clock steps in one behaviour
MaxRetryStarts == 2
MaxRetryTicks == 1
\* SpecCooldown: sendMessage invocations and clock steps in one behaviour
MaxCooldownStarts == 6
MaxCooldownTicks == 2
\* SpecUsage: sendMessage invocations and clock steps in one behaviour
MaxUsageStarts == 3
MaxUsageTicks == 2
\* SpecValidate: sendMessage invocations in one behaviour
MaxValidateStarts == 3
\* SpecErrors: sendMessage invocations in one behaviour
MaxErrorStarts == 2
\* SpecHttp: HTTP requests and clock steps in one behaviour
MaxHttpRequests == 2
MaxHttpTicks == 2
\* SpecConfig: sendMessage invocations and clock steps in one behaviour
MaxConfigStarts == 3
MaxConfigTicks == 1
\* SpecRecovery: sendMessage invocations and clock steps in one behaviour, and
\* the consecutive failures after which the upstream is healthy
MaxRecoveryStarts == 8
MaxRecoveryTicks == 2
MaxRecoveryFailures == 6
\* SpecRoutes: sendMessage invocations in one behaviour
MaxRouteStarts == 2
\* SpecStats: sendMessage invocations in one behaviour
MaxStatsStarts == 2
\* SpecReads: sendMessage invocations and clock steps in one behaviour
MaxReadStarts == 6
MaxReadTicks == 1

----------------------------------------------------------------------------
(* Program constants *)

\* RETRY_CONFIG
maxRetries == 3
baseDelayMs == 1000
maxDelayMs == 10000
backoffMultiplier == 2
\* jitterFactor is 0.1, held as a number of tenths
jitterFactorTenths == 1

RETRYABLE_STATUS_CODES == {408, 429, 500, 502, 503, 504}
RETRYABLE_ERROR_CODES ==
  {"ECONNRESET", "ECONNREFUSED", "ETIMEDOUT", "ENOTFOUND", "EAI_AGAIN",
   "EPIPE", "EHOSTUNREACH"}

\* circuitBreaker.threshold, circuitBreaker.resetTimeoutMs
threshold == 5
resetTimeoutMs == 30000

\* tokenTracker.windowDurationMs = 60 * 60 * 1000
windowDurationMs == 3600000

\* config.anthropic
defaultModel == "claude-sonnet-4-20250514"
defaultMaxTokens == 1024
hardMaxTokens == 4096
maxPromptLength == 50000
maxSystemPromptLength == 10000
validModels ==
  {"claude-opus-4-5-20251101", "claude-sonnet-4-20250514",
   "claude-3-5-haiku-20241022", "claude-3-5-sonnet-20241022",
   "claude-3-opus-20240229", "claude-3-sonnet-20240229",
   "claude-3-haiku-20240307"}
\* the default of the temperature option is 0.7
defaultTemperatureMilli == 700
\* config.server.requestTimeoutMs
requestTimeoutMs == 60000

----------------------------------------------------------------------------
(* JavaScript values *)

\* null / no value, for fields that otherwise hold <<v>>
Null == <<>>
Some(v) == <<v>>
\* ToNumber of a nullable timestamp: null converts to 0
ToNumber(v) == IF v = Null THEN 0 ELSE v[1]

Undefined == [t |-> "undefined", milli |-> 0, lead |-> 0, body |-> 0, trail |-> 0, name |-> ""]
JsNull == [Undefined EXCEPT !.t = "null"]
NaN == [Undefined EXCEPT !.t = "NaN"]
\* a number, in thousandths
Num(m) == [Undefined EXCEPT !.t = "number", !.milli = m]
\* a string that starts with the decimal numeral of m/1000
NumStr(m) == [Undefined EXCEPT !.t = "numstring", !.milli = m]
\* a number (m/1000) * 10^21 with 1 <= m/1000 < 10: a number of 10^21 or more,
\* whose decimal form is exponential ("1e+21")
Huge(m) == [Undefined EXCEPT !.t = "huge", !.milli = m]
\* a text: lead whitespace characters, then body characters that start and
\* end with a non-whitespace character, then trail whitespace characters
Str(lead, body, trail) ==
  [Undefined EXCEPT !.t = "string", !.lead = lead, !.body = body, !.trail = trail]
\* a model identifier
Name(n) == [Undefined EXCEPT !.t = "string", !.body = 1, !.name = n]

IsString(v) == v.t \in {"string", "numstring"}
\* String.prototype.length (a numeral's length is not tracked: short)
Length(v) == IF v.t = "string" THEN v.lead + v.body + v.trail ELSE 1
\* String.prototype.trim
Trim(v) == IF v.t = "string" THEN [v EXCEPT !.lead = 0, !.trail = 0] ELSE v
\* truthiness: undefined, null, NaN, 0 and "" are falsy
Truthy(v) ==
  CASE v.t \in {"undefined", "null", "NaN"} -> FALSE
    [] v.t = "number" -> v.milli # 0
    [] v.t = "string" -> Length(v) > 0
    [] OTHER -> TRUE

isNaN(v) == v.t = "NaN"
\* truncation toward zero of m/1000
TruncMilli(m) == IF m >= 0 THEN m \div 1000 ELSE -((-m) \div 1000)
\* parseInt(v, 10): String(v), then the integer that numeral starts with, else
\* NaN; of the exponential form the digits before the "." or the "e"
parseInt(v) ==
  IF v.t \in {"number", "numstring", "huge"} THEN Num(1000 * TruncMilli(v.milli)) ELSE NaN
\* parseFloat(v): reads the exponent too
parseFloat(v) ==
  CASE v.t \in {"number", "numstring"} -> Num(v.milli)
    [] v.t = "huge" -> v
    [] OTHER -> NaN
\* v > m/1000 for a number v
GreaterThan(v, m) == v.t = "huge" \/ v.milli > m

Min(a, b) == IF a <= b THEN a ELSE b
Max(a, b) == IF a >= b THEN a ELSE b

----------------------------------------------------------------------------
(* Messages.  A message is its fixed wording (id), a number it embeds (n)  *)
(* and a provider text it embeds (inner, "" for none).                     *)

Msg(id, n, inner) == [id |-> id, n |-> n, inner |-> inner]

\* the provider message texts of the model, and the phrases each contains
ProviderTexts ==
  {"overloaded", "bad input", "request timeout", "socket hang up",
   "connect ETIMEDOUT 1.2.3.4", "Invalid model: x"}
PhrasesOf(text) ==
  CASE text = "request timeout" -> {"timeout"}
    [] text = "socket hang up" -> {"socket hang up"}
    [] text = "connect ETIMEDOUT 1.2.3.4" -> {"ETIMEDOUT"}
    [] text = "Invalid model: x" -> {"Invalid model"}
    [] OTHER -> {}
\* the phrases a message of the service itself contains
OwnPhrases(id) ==
  CASE id = "PromptRequired" -> {"Prompt is required"}
    [] id = "PromptTooLong" -> {"Prompt exceeds maximum"}
    [] id = "InvalidModel" -> {"Invalid model"}
    [] id = "MaxTokensInvalid" -> {"maxTokens must be"}
    [] id = "TemperatureInvalid" -> {"temperature must be"}
    [] id = "SystemPromptTooLong" -> {"System prompt exceeds"}
    [] id = "SystemPromptNotString" -> {"systemPrompt must be"}
    [] id = "ApiKeyNotConfigured" -> {"API key is not configured"}
    [] id = "CircuitOpen" -> {"circuit breaker"}
    [] OTHER -> {}
\* message.includes(phrase)
Includes(m, phrase) ==
  IF m.id = "provider" THEN phrase \in PhrasesOf(m.inner)
  ELSE phrase \in (OwnPhrases(m.id) \cup PhrasesOf(m.inner))

\* an Error: status (0 for none), code ("" for none), message
Err(status, code, m) == [status |-> status, code |-> code, message |-> m]
\* a provider error
ProviderError(status, code, text) == Err(status, code, Msg("provider", 0, text))
\* new Error(message)
OwnError(m) == Err(0, "", m)
\* lastError = null
NoError == Err(0, "", Msg("", 0, ""))

----------------------------------------------------------------------------
(* Circuit breaker: the object's methods as functions of its fields and of *)
(* Date.now()                                                              *)

\* Math.ceil(a / b) for b > 0
CeilDiv(a, b) == IF a >= 0 THEN (a + b - 1) \div b ELSE -((-a) \div b)

\* recordSuccess that closes the breaker without zeroing the failure count
recordSuccess_keepCount(cb) == [cb EXCEPT !.state = "CLOSED"]

recordSuccess(cb) == [cb EXCEPT !.failures = 0, !.state = "CLOSED"]

\* recordFailure with the threshold compared by > instead of >=
recordFailure_gt(cb, t) ==
  LET f == cb.failures + 1
  IN [state |-> IF f > threshold THEN "OPEN" ELSE cb.state,
      failures |-> f,
      lastFailureTime |-> Some(t)]

\* recordFailure that stamps the time of a failure only while CLOSED
recordFailure_staleTime(cb, t) ==
  LET n == cb.failures + 1
      stamp == IF cb.state = "CLOSED" THEN Some(t) ELSE cb.lastFailureTime
  IN [state |-> IF n >= threshold THEN "OPEN" ELSE cb.state,
      failures |-> n,
      lastFailureTime |-> stamp]

recordFailure(cb, t) ==
  LET f == cb.failures + 1
  IN [state |-> IF f >= threshold THEN "OPEN" ELSE cb.state,
      failures |-> f,
      lastFailureTime |-> Some(t)]

\* canRequest with the wait rounded down (Math.floor for Math.ceil)
canRequest_floor(cb, t) ==
  LET timeSinceFailure == t - ToNumber(cb.lastFailureTime)
  IN CASE cb.state = "CLOSED" -> [ok |-> TRUE, cb |-> cb, error |-> NoError]
       [] cb.state = "OPEN" /\ timeSinceFailure >= resetTimeoutMs ->
            [ok |-> TRUE, cb |-> [cb EXCEPT !.state = "HALF_OPEN"], error |-> NoError]
       [] cb.state = "OPEN" /\ timeSinceFailure < resetTimeoutMs ->
            [ok |-> FALSE, cb |-> cb,
             error |-> OwnError(Msg("CircuitOpen",
                          (resetTimeoutMs - timeSinceFailure) \div 1000, ""))]
       [] OTHER -> [ok |-> TRUE, cb |-> cb, error |-> NoError]

\* canRequest that lets the call pass after the cooldown but leaves the
\* breaker OPEN
canRequest_stayOpen(cb, t) ==
  LET timeSinceFailure == t - ToNumber(cb.lastFailureTime)
  IN CASE cb.state = "CLOSED" -> [ok |-> TRUE, cb |-> cb, error |-> NoError]
       [] cb.state = "OPEN" /\ timeSinceFailure >= resetTimeoutMs ->
            [ok |-> TRUE, cb |-> cb, error |-> NoError]
       [] cb.state = "OPEN" /\ timeSinceFailure < resetTimeoutMs ->
            [ok |-> FALSE, cb |-> cb,
             error |-> OwnError(Msg("CircuitOpen",
                          CeilDiv(resetTimeoutMs - timeSinceFailure, 1000), ""))]
       [] OTHER -> [ok |-> TRUE, cb |-> cb, error |-> NoError]

\* canRequest: ok (returned true) or the Error thrown, and the breaker after
canRequest(cb, t) ==
  LET timeSinceFailure == t - ToNumber(cb.lastFailureTime)
  IN CASE cb.state = "CLOSED" -> [ok |-> TRUE, cb |-> cb, error |-> NoError]
       [] cb.state = "OPEN" /\ timeSinceFailure >= resetTimeoutMs ->
            [ok |-> TRUE, cb |-> [cb EXCEPT !.state = "HALF_OPEN"], error |-> NoError]
       [] cb.state = "OPEN" /\ timeSinceFailure < resetTimeoutMs ->
            [ok |-> FALSE, cb |-> cb,
             error |-> OwnError(Msg("CircuitOpen",
                          CeilDiv(resetTimeoutMs - timeSinceFailure, 1000), ""))]
       [] OTHER -> [ok |-> TRUE, cb |-> cb, error |-> NoError]

\* reset that leaves the failure timestamp in place
resetCircuitBreaker_keepTime(cb) ==
  [state |-> "CLOSED", failures |-> 0, lastFailureTime |-> cb.lastFailureTime]

\* circuitBreaker.reset
resetCircuitBreaker(cb) ==
  [state |-> "CLOSED", failures |-> 0, lastFailureTime |-> Null]

\* getCircuitBreakerState
getCircuitBreakerState(cb) ==
  [state |-> cb.state, failures |-> cb.failures, lastFailureTime |-> cb.lastFailureTime]

----------------------------------------------------------------------------
(* Token usage tracker *)

\* tokenTracker.reset
resetTokenStats(tt, t) ==
  [totalInputTokens |-> 0, totalOutputTokens |-> 0, requestCount |-> 0,
   windowStartTime |-> t]

\* recordUsage that rolls the window over at the very end of the window already
recordUsage_early(tt, inputTokens, outputTokens, t) ==
  LET w == IF t - tt.windowStartTime >= windowDurationMs
           THEN resetTokenStats(tt, t) ELSE tt
  IN [w EXCEPT !.totalInputTokens = @ + inputTokens,
               !.totalOutputTokens = @ + outputTokens,
               !.requestCount = @ + 1]

\* recordUsage that stores the new values instead of adding them
recordUsage_overwrite(tt, inputTokens, outputTokens, t) ==
  LET w == IF t - tt.windowStartTime > windowDurationMs
           THEN resetTokenStats(tt, t) ELSE tt
  IN [w EXCEPT !.totalInputTokens = inputTokens,
               !.totalOutputTokens = outputTokens,
               !.requestCount = @ + 1]

recordUsage(tt, inputTokens, outputTokens, t) ==
  LET w == IF t - tt.windowStartTime > windowDurationMs
           THEN resetTokenStats(tt, t) ELSE tt
  IN [w EXCEPT !.totalInputTokens = @ + inputTokens,
               !.totalOutputTokens = @ + outputTokens,
               !.requestCount = @ + 1]

\* tokenTracker.getStats, without the formatted date and cost
getStats(tt) ==
  [inputTokens |-> tt.totalInputTokens,
   outputTokens |-> tt.totalOutputTokens,
   totalTokens |-> tt.totalInputTokens + tt.totalOutputTokens,
   requestCount |-> tt.requestCount]

----------------------------------------------------------------------------
(* Retry helpers *)

RECURSIVE Pow(_, _)
Pow(b, e) == IF e = 0 THEN 1 ELSE b * Pow(b, e - 1)

\* calculateRetryDelay with twice the jitter
calculateRetryDelay_doubleJitter(attempt, r) ==
  LET exponentialDelay == baseDelayMs * Pow(backoffMultiplier, attempt)
      cappedDelay == Min(exponentialDelay, maxDelayMs)
  IN (cappedDelay * 10000 + 2 * cappedDelay * jitterFactorTenths * r) \div 10000

\* calculateRetryDelay, with Math.random() = r / 1000 for r in 0..999
calculateRetryDelay(attempt, r) ==
  LET exponentialDelay == baseDelayMs * Pow(backoffMultiplier, attempt)
      cappedDelay == Min(exponentialDelay, maxDelayMs)
  IN (cappedDelay * 10000 + cappedDelay * jitterFactorTenths * r) \div 10000

\* isRetryableError with 503 missing from the retryable status codes
isRetryableError_no503(error) ==
  \/ error.status # 0 /\ error.status \in (RETRYABLE_STATUS_CODES \ {503})
  \/ error.code # "" /\ error.code \in RETRYABLE_ERROR_CODES
  \/ /\ error.message.inner # "" \/ error.message.id # ""
     /\ \/ Includes(error.message, "timeout")
        \/ Includes(error.message, "ETIMEDOUT")
        \/ Includes(error.message, "socket hang up")

\* isRetryableError that takes every error for retryable
isRetryableError_always(error) == TRUE

isRetryableError(error) ==
  \/ error.status # 0 /\ error.status \in RETRYABLE_STATUS_CODES
  \/ error.code # "" /\ error.code \in RETRYABLE_ERROR_CODES
  \/ /\ error.message.inner # "" \/ error.message.id # ""
     /\ \/ Includes(error.message, "timeout")
        \/ Includes(error.message, "ETIMEDOUT")
        \/ Includes(error.message, "socket hang up")

----------------------------------------------------------------------------
(* sendMessage: input validation *)

\* the option record of a call; Undefined for an option that is not given
Options(prompt, systemPrompt, model, maxTokens, temperature) ==
  [prompt |-> prompt, systemPrompt |-> systemPrompt, model |-> model,
   maxTokens |-> maxTokens, temperature |-> temperature]

\* destructuring default: applies to undefined only
Default(v, d) == IF v.t = "undefined" THEN d ELSE v

isValidModel(model) == model.t = "string" /\ model.name \in validModels

parsedMaxTokens(o) == parseInt(Default(o.maxTokens, Num(1000 * defaultMaxTokens)))
\* effectiveMaxTokens without the hard cap
effectiveMaxTokens_uncapped(o) == parsedMaxTokens(o).milli \div 1000
effectiveMaxTokens(o) == Min(parsedMaxTokens(o).milli \div 1000, hardMaxTokens)
parsedTemperature(o) == parseFloat(Default(o.temperature, Num(defaultTemperatureMilli)))

NoMsg == Msg("", 0, "")

\* ValidationError without the temperature range check
ValidationError_noTemperature(o) ==
  LET model == Default(o.model, Name(defaultModel))
      pm == parsedMaxTokens(o)
      sp == o.systemPrompt
  IN CASE ~Truthy(o.prompt) \/ ~IsString(o.prompt) \/ Length(Trim(o.prompt)) = 0 ->
            Msg("PromptRequired", 0, "")
       [] Length(o.prompt) > maxPromptLength -> Msg("PromptTooLong", maxPromptLength, "")
       [] ~isValidModel(model) -> Msg("InvalidModel", 0, "")
       [] isNaN(pm) \/ pm.milli < 1000 -> Msg("MaxTokensInvalid", 0, "")
       [] Truthy(sp) /\ ~IsString(sp) -> Msg("SystemPromptNotString", 0, "")
       [] Truthy(sp) /\ Length(sp) > maxSystemPromptLength ->
            Msg("SystemPromptTooLong", maxSystemPromptLength, "")
       [] OTHER -> NoMsg

\* the message of the first validation that throws, NoMsg if none does
ValidationError(o) ==
  LET model == Default(o.model, Name(defaultModel))
      pm == parsedMaxTokens(o)
      pt == parsedTemperature(o)
      sp == o.systemPrompt
  IN CASE ~Truthy(o.prompt) \/ ~IsString(o.prompt) \/ Length(Trim(o.prompt)) = 0 ->
            Msg("PromptRequired", 0, "")
       [] Length(o.prompt) > maxPromptLength -> Msg("PromptTooLong", maxPromptLength, "")
       [] ~isValidModel(model) -> Msg("InvalidModel", 0, "")
       [] isNaN(pm) \/ pm.milli < 1000 -> Msg("MaxTokensInvalid", 0, "")
       [] isNaN(pt) \/ pt.milli < 0 \/ GreaterThan(pt, 1000) ->
            Msg("TemperatureInvalid", 0, "")
       [] Truthy(sp) /\ ~IsString(sp) -> Msg("SystemPromptNotString", 0, "")
       [] Truthy(sp) /\ Length(sp) > maxSystemPromptLength ->
            Msg("SystemPromptTooLong", maxSystemPromptLength, "")
       [] OTHER -> NoMsg

\* requestParams, as built for every attempt; system is Undefined when the
\* key is not added
requestParams(o) ==
  [model |-> Default(o.model, Name(defaultModel)),
   max_tokens |-> effectiveMaxTokens(o),
   temperature |-> parsedTemperature(o).milli,
   content |-> Trim(o.prompt),
   system |-> IF Truthy(o.systemPrompt) /\ Length(Trim(o.systemPrompt)) > 0
              THEN Trim(o.systemPrompt) ELSE Undefined]

NoParams ==
  [model |-> Undefined, max_tokens |-> 0, temperature |-> 0,
   content |-> Undefined, system |-> Undefined]

----------------------------------------------------------------------------
(* The routes: parameter validation and the options given to sendMessage *)

\* the optional parameters of a request as sent, in the query or in the body;
\* Undefined for one that is not given
RouteParams(model, maxTokens, temperature) ==
  [model |-> model, maxTokens |-> maxTokens, temperature |-> temperature]
NoRouteParams == RouteParams(Undefined, Undefined, Undefined)

\* a || d and a ?? d
Or(a, d) == IF Truthy(a) THEN a ELSE d
Nullish(a, d) == IF a.t \in {"undefined", "null"} THEN d ELSE a

\* isInt({ min, max }) and isFloat({ min, max }) of the validation chains, on
\* the value as text: a decimal integer, a decimal number, within the range
isInt(v, min, max) ==
  /\ v.t \in {"number", "numstring"}
  /\ v.milli % 1000 = 0
  /\ 1000 * min <= v.milli /\ v.milli <= 1000 * max
isFloat(v, min, max) ==
  /\ v.t \in {"number", "numstring"}
  /\ 1000 * min <= v.milli /\ v.milli <= 1000 * max

\* validateGetParams, validatePostParams: whether handleValidationErrors
\* finds an error (and answers 400)
validationFails(p) ==
  \/ p.model # Undefined /\ ~(p.model.t = "string" /\ p.model.name \in validModels)
  \/ p.maxTokens # Undefined /\ ~isInt(p.maxTokens, 1, 8192)
  \/ p.temperature # Undefined /\ ~isFloat(p.temperature, 0, 1)

\* the parameters after the chains' sanitizers, toInt() and toFloat()
sanitized(p) ==
  [model |-> p.model,
   maxTokens |-> IF p.maxTokens = Undefined THEN Undefined ELSE parseInt(p.maxTokens),
   temperature |-> IF p.temperature = Undefined THEN Undefined
                   ELSE parseFloat(p.temperature)]

extractParams(p) ==
  [model |-> Or(p.model, Name(defaultModel)),
   maxTokens |-> Or(p.maxTokens, Num(1000 * defaultMaxTokens)),
   temperature |-> Nullish(p.temperature, Num(700))]

\* the prompts the handlers build, and the system prompts they use
UserPrompt == Str(0, 40, 0)
SystemPrompt == Str(0, 200, 0)

\* the object that the handler of the endpoint passes to sendMessage, through
\* promptWithSystem, for the extracted parameters x
routeOptions(endpoint, x) ==
  CASE endpoint = "/api/emotions/support" ->
         Options(UserPrompt, SystemPrompt, x.model,
                 Or(x.maxTokens, Num(500000)), Or(x.temperature, Num(700)))
    [] endpoint = "/api/emotions/motivational-quote" ->
         Options(UserPrompt, SystemPrompt, x.model,
                 Or(x.maxTokens, Num(200000)), Or(x.temperature, Num(800)))
    [] endpoint = "/api/emotions/wellness-tip" ->
         Options(UserPrompt, SystemPrompt, x.model,
                 Or(x.maxTokens, Num(300000)), Or(x.temperature, Num(700)))
    [] endpoint = "/api/emotions/analyze" ->
         Options(UserPrompt, SystemPrompt, x.model,
                 Or(x.maxTokens, Num(300000)), Or(x.temperature, Num(300)))
    [] endpoint = "/api/emotions/custom" ->
         Options(UserPrompt, SystemPrompt, x.model, x.maxTokens, x.temperature)
    [] endpoint = "/api/affirmations/negative" ->
         Options(UserPrompt, SystemPrompt, x.model, x.maxTokens,
                 Nullish(x.temperature, Num(900)))

----------------------------------------------------------------------------
(* sendMessage: results *)

\* a transport response: content (an array of blocks), usage (present or not),
\* stop_reason
Response(hasUsage, inTok, outTok, stop) ==
  [hasContent |-> TRUE, hasUsage |-> hasUsage, input_tokens |-> inTok,
   output_tokens |-> outTok, stop_reason |-> stop]
\* the response without its content
NoContent(resp) == [resp EXCEPT !.hasContent = FALSE]
\* what response.content.filter(...) throws when content is undefined
TypeError ==
  Err(0, "", Msg("TypeError", 0, "Cannot read properties of undefined (reading 'filter')"))

\* no response yet
NoResponse == Response(FALSE, 0, 0, "")

NoMeta ==
  [inputTokens |-> 0, outputTokens |-> 0, totalTokens |-> 0,
   stopReason |-> "", truncated |-> FALSE]

\* response.usage?.input_tokens || 0
inputTokensOf(resp) == IF resp.hasUsage THEN resp.input_tokens ELSE 0
outputTokensOf(resp) == IF resp.hasUsage THEN resp.output_tokens ELSE 0

\* Success that never flags a truncated response
Success_neverTruncated(resp) ==
  [success |-> TRUE, error |-> NoError,
   metadata |-> [inputTokens |-> inputTokensOf(resp),
                 outputTokens |-> outputTokensOf(resp),
                 totalTokens |-> inputTokensOf(resp) + outputTokensOf(resp),
                 stopReason |-> resp.stop_reason,
                 truncated |-> FALSE]]

\* the object sendMessage returns
Success(resp) ==
  [success |-> TRUE, error |-> NoError,
   metadata |-> [inputTokens |-> inputTokensOf(resp),
                 outputTokens |-> outputTokensOf(resp),
                 totalTokens |-> inputTokensOf(resp) + outputTokensOf(resp),
                 stopReason |-> resp.stop_reason,
                 truncated |-> resp.stop_reason = "max_tokens"]]

\* the Error sendMessage throws
Failure(error) == [success |-> FALSE, error |-> error, metadata |-> NoMeta]
NoResult == [success |-> FALSE, error |-> NoError, metadata |-> NoMeta]

\* the error thrown after the retry loop, from lastError
translateError(lastError) ==
  LET m == lastError.message
      own == \E p \in {"Prompt is required", "Prompt exceeds maximum", "Invalid model",
                       "maxTokens must be", "temperature must be",
                       "System prompt exceeds", "systemPrompt must be",
                       "API key is not configured", "circuit breaker"} :
               Includes(m, p)
  IN CASE own -> lastError
       [] ~own /\ lastError.status = 400 -> OwnError(Msg("BadRequest", 0, m.inner))
       [] ~own /\ lastError.status = 401 -> OwnError(Msg("InvalidApiKey", 0, ""))
       [] ~own /\ lastError.status = 403 -> OwnError(Msg("AccessForbidden", 0, ""))
       [] ~own /\ lastError.status = 429 -> OwnError(Msg("RateLimitAfterRetries", 0, ""))
       [] ~own /\ lastError.status \in {500, 502, 503} ->
            OwnError(Msg("UnavailableAfterRetries", 0, ""))
       [] ~own /\ lastError.status # 0 /\ lastError.status \notin {400, 401, 403, 429, 500, 502, 503} ->
            OwnError(Msg("ApiError", lastError.status, m.inner))
       [] ~own /\ lastError.status = 0 /\ lastError.code \in {"ENOTFOUND", "ECONNREFUSED"} ->
            OwnError(Msg("UnableToConnect", 0, ""))
       [] OTHER -> OwnError(Msg("FailedToCommunicate", 0, m.inner))

----------------------------------------------------------------------------
(* State *)

VARIABLES
  now,             \* Date.now()
  apiKey,          \* whether config.anthropic.apiKey is set
  config,          \* config.anthropic.retry and config.anthropic.circuitBreaker
  circuitBreaker,  \* state, failures, lastFailureTime
  tokenTracker,    \* totalInputTokens, totalOutputTokens, requestCount, windowStartTime
  call,            \* per caller: the sendMessage call it has made, if any
  started,         \* number of sendMessage invocations so far
  sent,            \* number of transport calls so far
  ticks,           \* number of Tick steps so far
  usageLog,        \* history: the sums of the usage that the successful results of
                   \* the current window carry, and their number
  observed         \* what getTokenStats and getCircuitBreakerState returned last,
                   \* and when

vars ==
  <<now, apiKey, config, circuitBreaker, tokenTracker, call, started, sent, ticks,
    usageLog, observed>>

Callers == 1..NumCallers

\* A call: pc is where it stands ("idle": none made, "awaitTransport": in
\* client.messages.create, "sleeping": in sleep(delay), "done": returned or
\* thrown); opts, attempt, lastError, response are the locals of sendMessage;
\* req is the requestParams of the latest transport call; wakeAt is when the sleep
\* timer is due; result is what the call returned or threw.  History kept
\* for the properties: calls (transport invocations made by this call),
\* failed (transport calls of this call that were rejected), fault (the error
\* of the latest of them), sleeps (sleeps started), trial (canRequest let the
\* call pass with the breaker HALF_OPEN).  When the call is made by a route
\* handler for an HTTP request (viaHttp): deadline is when the request's
\* timeout is due, responses the number of responses sent for the request
\* (res.headersSent is responses > 0), status the status of the latest,
\* endpoint and params the route and the parameters of the request.
IdleCall ==
  [pc |-> "idle", opts |-> Options(Undefined, Undefined, Undefined, Undefined, Undefined),
   attempt |-> 0, lastError |-> NoError, response |-> NoResponse,
   req |-> NoParams, wakeAt |-> 0,
   result |-> NoResult, calls |-> 0, failed |-> 0, fault |-> NoError, sleeps |-> 0,
   trial |-> FALSE, viaHttp |-> FALSE, deadline |-> 0, responses |-> 0, status |-> 0,
   endpoint |-> "", params |-> NoRouteParams]

NoUsage == [input |-> 0, output |-> 0, results |-> 0]
\* one more successful result, with the usage its metadata reports
LogResult(log, metadata) ==
  [input |-> log.input + metadata.inputTokens,
   output |-> log.output + metadata.outputTokens,
   results |-> log.results + 1]

\* an HTTP request for the statistics: the X-API-Key header, the Authorization
\* header without its "Bearer " prefix, the api_key query parameter
StatsRequest(xApiKey, bearer, queryKey) ==
  [xApiKey |-> xApiKey, bearer |-> bearer, queryKey |-> queryKey]
\* the answer to it: the status, and the statistics of the body if it has any
StatsAnswer(req, status, stats) == [req |-> req, status |-> status, stats |-> stats]
NoHttp == StatsAnswer(StatsRequest(Undefined, Undefined, Undefined), 0, Null)

\* neither getter called yet, no statistics requested
NoObservation ==
  [stats |-> [inputTokens |-> 0, outputTokens |-> 0, totalTokens |-> 0, requestCount |-> 0],
   statsAt |-> -1,
   breaker |-> [state |-> "", failures |-> 0, lastFailureTime |-> Null],
   breakerAt |-> -1,
   http |-> NoHttp]

\* parseInt(process.env.X, 10) || d, for X unset (Undefined) or a numeral
EnvInt(x, d) == IF Truthy(parseInt(x)) THEN parseInt(x).milli \div 1000 ELSE d

\* the retry and circuit breaker sections of the configuration, as loaded from
\* API_MAX_RETRIES, API_RETRY_BASE_DELAY_MS, API_RETRY_MAX_DELAY_MS,
\* CIRCUIT_BREAKER_THRESHOLD and CIRCUIT_BREAKER_RESET_MS
LoadConfig(maxRetriesEnv, baseDelayEnv, maxDelayEnv, thresholdEnv, resetEnv) ==
  [retry |-> [maxRetries |-> EnvInt(maxRetriesEnv, 3),
              baseDelayMs |-> EnvInt(baseDelayEnv, 1000),
              maxDelayMs |-> EnvInt(maxDelayEnv, 10000)],
   circuitBreaker |-> [failureThreshold |-> EnvInt(thresholdEnv, 5),
                       resetTimeoutMs |-> EnvInt(resetEnv, 30000)]]

\* the server and security sections, as loaded from NODE_ENV, REQUIRE_API_KEY
\* and API_KEY
LoadSecurity(nodeEnv, requireEnv, keyEnv) ==
  [server |-> [isProduction |-> nodeEnv = Name("production")],
   security |-> [requireApiKey |-> requireEnv = Name("true"),
                 apiKey |-> IF Truthy(keyEnv) THEN keyEnv ELSE JsNull]]

\* the state when the module is loaded, with the process environment env
Load(env) ==
  /\ now = 0
  /\ config = LoadConfig(env[1], env[2], env[3], env[4], env[5])
                @@ LoadSecurity(env[6], env[7], env[8])
  /\ circuitBreaker = [state |-> "CLOSED", failures |-> 0, lastFailureTime |-> Null]
  /\ tokenTracker = [totalInputTokens |-> 0, totalOutputTokens |-> 0,
                     requestCount |-> 0, windowStartTime |-> 0]
  /\ call = [c \in Callers |-> IdleCall]
  /\ started = 0
  /\ sent = 0
  /\ ticks = 0
  /\ usageLog = NoUsage
  /\ observed = NoObservation

\* the resilience variables are not set: the configuration has the defaults
NoEnvironment == [i \in 1..8 |-> Undefined]
Init == apiKey \in BOOLEAN /\ Load(NoEnvironment)

----------------------------------------------------------------------------
(* sendMessage, one event-loop turn at a time *)

\* the call k of caller c ends with the given result; the route handler
\* answers with res.json(...), the error handler with res.status(500).json(...)
\* for what sendMessage threw: both throw when the headers are sent already
Finish(c, k, result) ==
  LET answered == k.viaHttp /\ k.responses = 0
  IN call' = [call EXCEPT ![c] =
                [k EXCEPT !.pc = "done", !.result = result,
                          !.responses = IF answered THEN 1 ELSE @,
                          !.status = IF answered
                                     THEN (IF result.success THEN 200 ELSE 500)
                                     ELSE @]]

\* catchBlock that sleeps after the last attempt too
catchBlock_sleepAfterLast(c, k, cb, error, t, r) ==
  LET k1 == [k EXCEPT !.lastError = error]
  IN /\ circuitBreaker' = recordFailure(cb, t)
     /\ IF ~isRetryableError(error)
        THEN Finish(c, k1, Failure(translateError(error)))
        ELSE call' = [call EXCEPT ![c] =
                        [k1 EXCEPT !.pc = "sleeping",
                                   !.wakeAt = t + calculateRetryDelay(k.attempt, r),
                                   !.sleeps = @ + 1]]

\* the catch block of the retry loop at time t, and what follows it: the
\* sleep before the next attempt, or the end of the loop and the throw
catchBlock(c, k, cb, error, t, r) ==
  LET k1 == [k EXCEPT !.lastError = error]
  IN /\ circuitBreaker' = recordFailure(cb, t)
     /\ IF ~isRetryableError(error)
        THEN Finish(c, k1, Failure(translateError(error)))
        ELSE IF k.attempt < maxRetries
        THEN call' = [call EXCEPT ![c] =
                        [k1 EXCEPT !.pc = "sleeping",
                                   !.wakeAt = t + calculateRetryDelay(k.attempt, r),
                                   !.sleeps = @ + 1]]
        ELSE Finish(c, [k1 EXCEPT !.attempt = @ + 1], Failure(translateError(error)))

\* the try block of one loop iteration up to the await: getClient, then
\* client.messages.create(requestParams)
tryBlock(c, k, cb, t) ==
  IF ~apiKey
  THEN /\ catchBlock(c, k, cb, OwnError(Msg("ApiKeyNotConfigured", 0, "")), t, 0)
       /\ UNCHANGED sent
  ELSE /\ sent' = sent + 1
       /\ circuitBreaker' = cb
       /\ call' = [call EXCEPT ![c] =
                     [k EXCEPT !.pc = "awaitTransport",
                               !.req = requestParams(k.opts),
                               !.calls = @ + 1]]

\* sendMessage(o) is called: validation, the breaker check, the first attempt;
\* k0 is the call before it
sendMessage(c, k0, o) ==
  /\ call[c].pc \in {"idle", "done"}
  /\ \A d \in Callers : d < c => call[d].pc \notin {"idle", "done"}
  /\ started' = started + 1
  /\ LET k == [k0 EXCEPT !.opts = o]
         verr == ValidationError(o)
         cr == canRequest(circuitBreaker, now)
     IN IF verr # NoMsg
        THEN /\ Finish(c, k, Failure(OwnError(verr)))
             /\ UNCHANGED <<circuitBreaker, sent>>
        ELSE IF ~cr.ok
        THEN /\ Finish(c, k, Failure(cr.error))
             /\ circuitBreaker' = cr.cb
             /\ UNCHANGED sent
        ELSE tryBlock(c, [k EXCEPT !.trial = (cr.cb.state = "HALF_OPEN")], cr.cb, now)
  /\ UNCHANGED <<now, apiKey, config, tokenTracker, ticks, usageLog, observed>>

\* sendMessage(o) is called by a program that uses the service
Start(c, o) == sendMessage(c, IdleCall, o)

\* an HTTP request arrives whose route handler calls sendMessage(o), after
\* timeoutHandler has set the request's timeout
HttpRequest(c, o) ==
  sendMessage(c, [IdleCall EXCEPT !.viaHttp = TRUE, !.deadline = now + requestTimeoutMs], o)

\* a request to a route arrives: the validation chain answers 400, or the
\* handler calls sendMessage with the options it makes of the parameters
RouteRequest(c, endpoint, p) ==
  IF validationFails(p)
  THEN /\ call[c].pc \in {"idle", "done"}
       /\ \A d \in Callers : d < c => call[d].pc \notin {"idle", "done"}
       /\ call' = [call EXCEPT ![c] =
                     [IdleCall EXCEPT !.pc = "done", !.viaHttp = TRUE,
                                      !.endpoint = endpoint, !.params = p,
                                      !.responses = 1, !.status = 400]]
       /\ UNCHANGED <<now, apiKey, config, circuitBreaker, tokenTracker, started, sent, ticks,
                      usageLog, observed>>
  ELSE sendMessage(c, [IdleCall EXCEPT !.viaHttp = TRUE,
                                       !.deadline = now + requestTimeoutMs,
                                       !.endpoint = endpoint, !.params = p],
                   routeOptions(endpoint, extractParams(sanitized(p))))

\* client.messages.create resolves with resp: the response processing, which
\* is inside the try block (a throw in it is caught by the catch block)
TransportSuccess(c, resp) ==
  /\ call[c].pc = "awaitTransport"
  /\ tokenTracker' = recordUsage(tokenTracker, inputTokensOf(resp), outputTokensOf(resp), now)
  /\ LET k == [call[c] EXCEPT !.response = resp]
         log == IF tokenTracker'.windowStartTime = tokenTracker.windowStartTime
                THEN usageLog ELSE NoUsage
     IN IF resp.hasContent
        THEN /\ circuitBreaker' = recordSuccess(circuitBreaker)
             /\ Finish(c, k, Success(resp))
             /\ usageLog' = LogResult(log, call'[c].result.metadata)
        ELSE /\ catchBlock(c, k, recordSuccess(circuitBreaker), TypeError, now, 0)
             /\ usageLog' = log
  /\ UNCHANGED <<now, apiKey, config, started, sent, ticks, observed>>

\* client.messages.create rejects with error; r is Math.random() * 1000
TransportFailure(c, error, r) ==
  /\ call[c].pc = "awaitTransport"
  /\ catchBlock(c, [call[c] EXCEPT !.failed = @ + 1, !.fault = error],
                circuitBreaker, error, now, r)
  /\ UNCHANGED <<now, apiKey, config, tokenTracker, started, sent, ticks, usageLog, observed>>

\* the callers that sleep, and those whose HTTP request can still time out
Sleepers == {c \in Callers : call[c].pc = "sleeping"}
Pending ==
  {c \in Callers : /\ call[c].viaHttp /\ call[c].responses = 0
                   /\ call[c].pc \in {"awaitTransport", "sleeping"}}

\* the sleep of caller c is over: attempt++, and the next loop iteration if
\* attempt <= maxRetries
Wake(c) ==
  /\ call[c].pc = "sleeping"
  /\ \A d \in Sleepers : call[c].wakeAt <= call[d].wakeAt
  /\ \A d \in Pending : call[c].wakeAt <= call[d].deadline
  /\ now' = Max(now, call[c].wakeAt)
  /\ LET k == [call[c] EXCEPT !.attempt = @ + 1]
     IN IF k.attempt <= maxRetries
        THEN tryBlock(c, k, circuitBreaker, now')
        ELSE /\ Finish(c, k, Failure(translateError(k.lastError)))
             /\ UNCHANGED <<circuitBreaker, sent>>
  /\ UNCHANGED <<apiKey, config, tokenTracker, started, ticks, usageLog, observed>>

\* time passes, by d, but not past a timer that is due
Tick(d) ==
  /\ \A c \in Sleepers : now + d <= call[c].wakeAt
  /\ \A c \in Pending : now + d <= call[c].deadline
  /\ now' = now + d
  /\ ticks' = ticks + 1
  /\ UNCHANGED <<apiKey, config, circuitBreaker, tokenTracker, call, started, sent, usageLog, observed>>

\* the timeout of the HTTP request of caller c fires while its call is in
\* flight: next(new ApiError(408, ...)), and the error handler answers
RequestTimeout(c) ==
  /\ c \in Pending
  /\ \A d \in Sleepers : call[c].deadline <= call[d].wakeAt
  /\ \A d \in Pending : call[c].deadline <= call[d].deadline
  /\ now' = Max(now, call[c].deadline)
  /\ call' = [call EXCEPT ![c] = [@ EXCEPT !.responses = 1, !.status = 408]]
  /\ UNCHANGED <<apiKey, config, circuitBreaker, tokenTracker, started, sent, ticks, usageLog,
                 observed>>

\* the exported resetCircuitBreaker()
ResetCircuitBreaker ==
  /\ circuitBreaker' = resetCircuitBreaker(circuitBreaker)
  /\ UNCHANGED <<now, apiKey, config, tokenTracker, call, started, sent, ticks, usageLog, observed>>

\* the exported resetTokenStats()
ResetTokenStats ==
  /\ tokenTracker' = resetTokenStats(tokenTracker, now)
  /\ usageLog' = NoUsage
  /\ UNCHANGED <<now, apiKey, config, circuitBreaker, call, started, sent, ticks, observed>>

\* GetCircuitBreakerState that lets the breaker pass to HALF_OPEN when the
\* cooldown is over, as canRequest does
GetCircuitBreakerState_transition ==
  /\ circuitBreaker' =
       IF circuitBreaker.state = "OPEN"
          /\ now - ToNumber(circuitBreaker.lastFailureTime) >= resetTimeoutMs
       THEN [circuitBreaker EXCEPT !.state = "HALF_OPEN"] ELSE circuitBreaker
  /\ observed' = [observed EXCEPT !.breaker = getCircuitBreakerState(circuitBreaker'),
                                  !.breakerAt = now]
  /\ UNCHANGED <<now, apiKey, config, tokenTracker, call, started, sent, ticks, usageLog>>

\* the exported getCircuitBreakerState()
GetCircuitBreakerState ==
  /\ observed' = [observed EXCEPT !.breaker = getCircuitBreakerState(circuitBreaker),
                                  !.breakerAt = now]
  /\ UNCHANGED <<now, apiKey, config, circuitBreaker, tokenTracker, call, started, sent, ticks,
                 usageLog>>

\* the exported getTokenStats()
GetTokenStats ==
  /\ observed' = [observed EXCEPT !.stats = getStats(tokenTracker), !.statsAt = now]
  /\ UNCHANGED <<now, apiKey, config, circuitBreaker, tokenTracker, call, started, sent, ticks,
                 usageLog>>

\* timingSafeEqual(a, b): false unless both are strings
timingSafeEqual(a, b) == a.t = "string" /\ b.t = "string" /\ a = b

\* apiKeyAuth: 0 when it calls next(), or the status of the error it throws
apiKeyAuth(req) ==
  LET providedKey == IF Truthy(req.xApiKey) THEN req.xApiKey
                     ELSE IF Truthy(req.bearer) THEN req.bearer
                     ELSE req.queryKey
  IN CASE ~config.security.requireApiKey -> 0
       [] config.security.requireApiKey /\ ~Truthy(config.security.apiKey) -> 500
       [] config.security.requireApiKey /\ Truthy(config.security.apiKey)
            /\ ~Truthy(providedKey) -> 401
       [] config.security.requireApiKey /\ Truthy(config.security.apiKey)
            /\ Truthy(providedKey)
            /\ ~timingSafeEqual(providedKey, config.security.apiKey) -> 401
       [] OTHER -> 0

\* GET /api/stats, a route of the health router, which is mounted at the root
\* before the routes that apiKeyAuth protects
GetApiStats(req) ==
  /\ observed' =
       [observed EXCEPT !.http =
          IF /\ config.server.isProduction /\ config.security.requireApiKey
             /\ ~Truthy(req.xApiKey)
          THEN StatsAnswer(req, 401, Null)
          ELSE StatsAnswer(req, 200,
                 Some([tokens |-> getStats(tokenTracker),
                       circuitBreaker |->
                         [state |-> getCircuitBreakerState(circuitBreaker).state,
                          consecutiveFailures |->
                            getCircuitBreakerState(circuitBreaker).failures]]))]
  /\ UNCHANGED <<now, apiKey, config, circuitBreaker, tokenTracker, call, started, sent, ticks,
                 usageLog>>

----------------------------------------------------------------------------
(* Inputs *)

Hello == Str(0, 5, 0)
ValidRequest == Options(Hello, Undefined, Undefined, Undefined, Undefined)

E503 == ProviderError(503, "", "overloaded")
E400 == ProviderError(400, "", "bad input")

----------------------------------------------------------------------------
(* Spec: the breaker under concurrent calls.  The upstream answers, fails  *)
(* with a retryable or with a non-retryable status; no jitter              *)
(* (Math.random() = 0) and the clock otherwise advances by the cooldown;   *)
(* the breaker can be reset at any time.                                   *)

Requests == {ValidRequest}
TransportErrors == {E503, E400}
Responses == {Response(TRUE, 10, 5, "end_turn")}
Randoms == {0}
TickSteps == {30000}

Next ==
  \/ \E c \in Callers, o \in Requests :
       started < MaxStarts /\ sent < MaxSent /\ Start(c, o)
  \/ \E c \in Callers, resp \in Responses : TransportSuccess(c, resp)
  \/ \E c \in Callers, e \in TransportErrors, r \in Randoms : TransportFailure(c, e, r)
  \/ \E c \in Callers : sent < MaxSent /\ Wake(c)
  \/ \E d \in TickSteps : ticks < MaxTicks /\ Tick(d)
  \/ ResetCircuitBreaker

Spec == Init /\ [][Next]_vars

----------------------------------------------------------------------------
(* SpecRetry: the retry loop of one caller at a time, with every class of  *)
(* upstream error and with jitter.                                         *)

EConnReset == ProviderError(0, "ECONNRESET", "overloaded")
ETimeout == ProviderError(0, "", "request timeout")
E401 == ProviderError(401, "", "bad input")
RetryErrors == {E503, E400, EConnReset, ETimeout, E401}
RetryRandoms == {0, 500, 999}

NextRetry ==
  \/ \E o \in Requests : started < MaxRetryStarts /\ Start(1, o)
  \/ \E resp \in Responses : TransportSuccess(1, resp)
  \/ \E e \in RetryErrors, r \in RetryRandoms : TransportFailure(1, e, r)
  \/ Wake(1)
  \/ \E d \in TickSteps : ticks < MaxRetryTicks /\ Tick(d)

SpecRetry == Init /\ [][NextRetry]_vars

----------------------------------------------------------------------------
(* SpecCooldown: concurrent calls to an upstream that answers or fails     *)
(* with a non-retryable status, so that no call sleeps; the clock advances *)
(* in steps that are no whole seconds.                                     *)

FastErrors == {E400}
CooldownTickSteps == {500, 29500}

NextCooldown ==
  \/ \E c \in Callers, o \in Requests : started < MaxCooldownStarts /\ Start(c, o)
  \/ \E c \in Callers, resp \in Responses : TransportSuccess(c, resp)
  \/ \E c \in Callers, e \in FastErrors : TransportFailure(c, e, 0)
  \/ \E d \in CooldownTickSteps : ticks < MaxCooldownTicks /\ Tick(d)
  \/ ResetCircuitBreaker

SpecCooldown == Init /\ [][NextCooldown]_vars

----------------------------------------------------------------------------
(* SpecUsage: the usage tracker under concurrent calls.  Answers carry     *)
(* different usage, or none; failures are not retried; the clock advances  *)
(* by the usage window or by a millisecond; the tracker can be reset.      *)

UsageResponses ==
  {Response(TRUE, 10, 5, "end_turn"), Response(TRUE, 20, 15, "max_tokens"),
   Response(FALSE, 0, 0, "end_turn")}
UsageTickSteps == {1, 3600000}

NextUsage ==
  \/ \E c \in Callers, o \in Requests : started < MaxUsageStarts /\ Start(c, o)
  \/ \E c \in Callers, resp \in UsageResponses : TransportSuccess(c, resp)
  \/ \E c \in Callers, e \in FastErrors : TransportFailure(c, e, 0)
  \/ \E d \in UsageTickSteps : ticks < MaxUsageTicks /\ Tick(d)
  \/ ResetTokenStats

SpecUsage == Init /\ [][NextUsage]_vars

----------------------------------------------------------------------------
(* SpecValidate: the validation of one caller's requests, each a valid     *)
(* request with one option changed, before a breaker in any state (the     *)
(* upstream answers or fails with a retryable status).                     *)

WithPrompt(v) == [ValidRequest EXCEPT !.prompt = v]
WithSystemPrompt(v) == [ValidRequest EXCEPT !.systemPrompt = v]
WithModel(v) == [ValidRequest EXCEPT !.model = v]
WithMaxTokens(v) == [ValidRequest EXCEPT !.maxTokens = v]
WithTemperature(v) == [ValidRequest EXCEPT !.temperature = v]
Abc == Str(0, 3, 0)

ValidateRequests ==
  {ValidRequest}
  \cup {WithPrompt(v) : v \in {Undefined, Str(0, 0, 0), Str(2, 0, 1), Num(5000),
                               Str(0, maxPromptLength + 1, 0), Str(1, maxPromptLength, 0),
                               Str(0, maxPromptLength, 0), Str(1, 5, 2)}}
  \cup {WithSystemPrompt(v) : v \in {Str(1, 8, 0), Str(3, 0, 0), Str(0, 0, 0), Num(5000),
                                     Num(0), JsNull, Str(0, maxSystemPromptLength + 1, 0),
                                     Str(0, maxSystemPromptLength, 0)}}
  \cup {WithModel(v) : v \in {Name("claude-3-haiku-20240307"), Name("gpt-4"),
                              Name("CLAUDE-SONNET-4-20250514"), JsNull}}
  \cup {WithMaxTokens(v) : v \in {Num(1000), Num(1000 * hardMaxTokens),
                                  Num(1000 * (hardMaxTokens + 1)), Num(10000000),
                                  NumStr(10000000), Huge(1000), Num(1500), Num(500),
                                  Num(0), Num(-5000), Abc, JsNull}}
  \cup {WithTemperature(v) : v \in {Num(0), Num(300), Num(1000), NumStr(500), Num(1001),
                                    Num(1500), Huge(1000), Num(-1), Abc, JsNull, NaN}}

ValidateErrors == {E503}

NextValidate ==
  \/ \E o \in ValidateRequests : started < MaxValidateStarts /\ Start(1, o)
  \/ \E resp \in Responses : TransportSuccess(1, resp)
  \/ \E e \in ValidateErrors : TransportFailure(1, e, 0)
  \/ Wake(1)

SpecValidate == Init /\ [][NextValidate]_vars

----------------------------------------------------------------------------
(* SpecErrors: one caller before an upstream that fails in every way: each *)
(* status with two message texts, each retryable network code, the timeout *)
(* texts without status or code, an answer without content.                *)

ErrorStatuses == {400, 401, 403, 404, 408, 429, 500, 502, 503, 504}
AllErrors ==
  {ProviderError(st, "", text) : st \in ErrorStatuses, text \in {"overloaded", "Invalid model: x"}}
  \cup {ProviderError(0, code, "overloaded") : code \in RETRYABLE_ERROR_CODES}
  \cup {ProviderError(0, "", text) :
          text \in {"overloaded", "request timeout", "socket hang up",
                    "connect ETIMEDOUT 1.2.3.4"}}

ErrorResponses == Responses \cup {NoContent(resp) : resp \in Responses}

NextErrors ==
  \/ \E o \in Requests : started < MaxErrorStarts /\ Start(1, o)
  \/ \E resp \in ErrorResponses : TransportSuccess(1, resp)
  \/ \E e \in AllErrors : TransportFailure(1, e, 0)
  \/ Wake(1)

SpecErrors == Init /\ [][NextErrors]_vars

----------------------------------------------------------------------------
(* SpecReads: the two getters, called at any time between the calls of one *)
(* caller; the upstream answers or fails with a non-retryable status; the  *)
(* clock advances past the cooldown and the usage window.                  *)

ReadTickSteps == {windowDurationMs + 1}

NextReads ==
  \/ \E o \in Requests : started < MaxReadStarts /\ Start(1, o)
  \/ \E resp \in Responses : TransportSuccess(1, resp)
  \/ \E e \in FastErrors : TransportFailure(1, e, 0)
  \/ \E d \in ReadTickSteps : ticks < MaxReadTicks /\ Tick(d)
  \/ GetTokenStats
  \/ GetCircuitBreakerState

SpecReads == Init /\ [][NextReads]_vars

----------------------------------------------------------------------------
(* SpecHttp: the HTTP requests of one client, each handled by a route that *)
(* calls sendMessage, under the request timeout; the upstream is slow (the  *)
(* clock advances while a call is in flight), answers, or fails with a     *)
(* retryable or a non-retryable status.                                    *)

HttpTickSteps == {30000}

NextHttp ==
  \/ \E o \in Requests : started < MaxHttpRequests /\ HttpRequest(1, o)
  \/ \E resp \in Responses : TransportSuccess(1, resp)
  \/ \E e \in TransportErrors : TransportFailure(1, e, 0)
  \/ Wake(1)
  \/ \E d \in HttpTickSteps : ticks < MaxHttpTicks /\ Tick(d)
  \/ RequestTimeout(1)

SpecHttp == Init /\ [][NextHttp]_vars

----------------------------------------------------------------------------
(* SpecConfig: one caller of a service started with the resilience         *)
(* variables of the environment set or not; the upstream answers or fails  *)
(* with a retryable or a non-retryable status; the clock advances by 10 s. *)

Environments ==
  {<<r, Undefined, Undefined, th, ms, Undefined, Undefined, Undefined>> :
     r \in {Undefined, NumStr(1000)},
     th \in {Undefined, NumStr(3000)},
     ms \in {Undefined, NumStr(10000000)}}
ConfigTickSteps == {10000}

InitConfig == apiKey = TRUE /\ \E env \in Environments : Load(env)

NextConfig ==
  \/ \E o \in Requests : started < MaxConfigStarts /\ Start(1, o)
  \/ \E resp \in Responses : TransportSuccess(1, resp)
  \/ \E e \in TransportErrors : TransportFailure(1, e, 0)
  \/ Wake(1)
  \/ \E d \in ConfigTickSteps : ticks < MaxConfigTicks /\ Tick(d)

SpecConfig == InitConfig /\ [][NextConfig]_vars

----------------------------------------------------------------------------
(* SpecStats: the statistics endpoint of a server started in any           *)
(* environment, asked with or without a key between the calls of one       *)
(* caller; the upstream answers or fails with a non-retryable status.      *)

Secret == Name("secret")
Wrong == Name("wrong")
StatsEnvironments ==
  {<<Undefined, Undefined, Undefined, Undefined, Undefined, nodeEnv, requireEnv, keyEnv>> :
     nodeEnv \in {Undefined, Name("production")},
     requireEnv \in {Undefined, Name("true")},
     keyEnv \in {Undefined, Secret}}
StatsRequests ==
  {StatsRequest(x, b, Undefined) : x \in {Undefined, Secret, Wrong}, b \in {Undefined, Secret}}

InitStats == apiKey = TRUE /\ \E env \in StatsEnvironments : Load(env)

NextStats ==
  \/ \E o \in Requests : started < MaxStatsStarts /\ Start(1, o)
  \/ \E resp \in Responses : TransportSuccess(1, resp)
  \/ \E e \in FastErrors : TransportFailure(1, e, 0)
  \/ \E req \in StatsRequests : GetApiStats(req)

SpecStats == InitStats /\ [][NextStats]_vars

----------------------------------------------------------------------------
(* SpecRoutes: the requests of one client to the routes, with every        *)
(* parameter given or not, valid or not; the upstream answers or fails     *)
(* with a non-retryable status.                                            *)

EmotionEndpoints ==
  {"/api/emotions/support", "/api/emotions/motivational-quote",
   "/api/emotions/wellness-tip", "/api/emotions/analyze", "/api/emotions/custom"}
Endpoints == EmotionEndpoints \cup {"/api/affirmations/negative"}
RouteRequests ==
  {RouteParams(m, mt, t) :
     m \in {Undefined, Name("claude-3-haiku-20240307"), Name("gpt-4")},
     mt \in {Undefined, NumStr(100000), NumStr(8192000), Num(0), NumStr(1500)},
     t \in {Undefined, NumStr(0), Num(0), NumStr(500), Num(1000), NumStr(1500)}}

NextRoutes ==
  \/ \E ep \in Endpoints, p \in RouteRequests :
       started < MaxRouteStarts /\ RouteRequest(1, ep, p)
  \/ \E resp \in Responses : TransportSuccess(1, resp)
  \/ \E e \in FastErrors : TransportFailure(1, e, 0)

SpecRoutes == Init /\ [][NextRoutes]_vars

----------------------------------------------------------------------------
(* SpecRecovery: the recovery of the breaker.  One caller keeps calling (a  *)
(* caller that was just rejected calls again when time has advanced), the  *)
(* clock keeps advancing by the cooldown, every transport call is          *)
(* answered; the upstream fails with a non-retryable status until the      *)
(* count of consecutive failures is MaxRecoveryFailures, and succeeds from *)
(* then on.                                                                *)

RecoveryStart ==
  \E o \in Requests :
    /\ started < MaxRecoveryStarts
    /\ ~( /\ call[1].pc = "done"
          /\ call[1].result.error.message.id = "CircuitOpen"
          /\ ~canRequest(circuitBreaker, now).ok )
    /\ Start(1, o)
RecoveryAnswer == \E resp \in Responses : TransportSuccess(1, resp)
RecoveryFailure ==
  \E e \in FastErrors :
    circuitBreaker.failures < MaxRecoveryFailures /\ TransportFailure(1, e, 0)
RecoveryTick == \E d \in TickSteps : ticks < MaxRecoveryTicks /\ Tick(d)

NextRecovery == RecoveryStart \/ RecoveryAnswer \/ RecoveryFailure \/ RecoveryTick

\* calls keep arriving, the transport answers, time advances
SpecRecovery ==
  /\ Init /\ [][NextRecovery]_vars
  /\ WF_vars(RecoveryStart) /\ WF_vars(RecoveryAnswer) /\ WF_vars(RecoveryTick)

----------------------------------------------------------------------------
(* Properties *)

\* caller c has no call in progress
Free(c) == call[c].pc \in {"idle", "done"}
\* the step is an invocation of sendMessage by caller c
StartStep(c) ==
  /\ started' = started + 1
  /\ Free(c)
  /\ \A d \in Callers : d < c => ~Free(d)
\* the call k was thrown out by the breaker: the circuit-open error, and no
\* transport call
Rejected(k) ==
  /\ k.pc = "done"
  /\ ~k.result.success
  /\ k.result.error.message.id = "CircuitOpen"
  /\ k.calls = 0
\* the call k was let through by the breaker
Admitted(k) == k.pc \in {"awaitTransport", "sleeping"}
\* the step reports a failure to the breaker
FailureReport == circuitBreaker'.failures = circuitBreaker.failures + 1
ClosedBreaker == [state |-> "CLOSED", failures |-> 0, lastFailureTime |-> Null]

\* C1: the failure report that brings the count of consecutive failures to
\* the threshold (5) or beyond leaves the breaker Open, and a call that
\* arrives at the Open breaker less than resetTimeoutMs after the last
\* failure is rejected with the circuit-open error and makes no transport
\* call.
C1_OpenAtThresholdRejects ==
  [][/\ FailureReport /\ circuitBreaker'.failures >= threshold
          => circuitBreaker'.state = "OPEN"
     /\ \A c \in Callers :
          ( /\ StartStep(c)
            /\ ValidationError(call'[c].opts) = NoMsg
            /\ circuitBreaker.state = "OPEN"
            /\ circuitBreaker.failures >= threshold
            /\ now - ToNumber(circuitBreaker.lastFailureTime) < resetTimeoutMs )
          => Rejected(call'[c]) /\ sent' = sent]_vars

\* a call was rejected right after exactly threshold failures
C1_Witness ==
  /\ circuitBreaker.state = "OPEN"
  /\ circuitBreaker.failures = threshold
  /\ \E c \in Callers : Rejected(call[c])

\* C2: a call that arrives while the breaker is Half-Open (the trial call
\* still in flight) is rejected, so that at most one trial is in flight.
C2_SingleTrialInHalfOpen ==
  [][\A c \in Callers :
       ( /\ StartStep(c)
         /\ ValidationError(call'[c].opts) = NoMsg
         /\ circuitBreaker.state = "HALF_OPEN"
         /\ \E d \in Callers : d # c /\ Admitted(call[d]) )
       => Rejected(call'[c])]_vars

\* C9: resetCircuitBreaker leaves the breaker at {CLOSED, 0, null} whatever
\* it was, a second reset changes nothing, and the usage window is as before.
C9_ResetBreaker ==
  [][ResetCircuitBreaker =>
       /\ circuitBreaker' = ClosedBreaker
       /\ resetCircuitBreaker(circuitBreaker') = circuitBreaker'
       /\ tokenTracker' = tokenTracker]_vars

\* the breaker has been reset after it was Open: calls were rejected, and the
\* breaker is Closed with no failure time
C9_Witness ==
  /\ circuitBreaker = ClosedBreaker
  /\ \E c \in Callers : Rejected(call[c])

\* the classes of error the retry loop retries: the retryable statuses, the
\* retryable network codes, the timeout and socket-hang-up messages
RetryableClass(e) ==
  \/ e.status \in {408, 429, 500, 502, 503, 504}
  \/ e.code \in {"ECONNRESET", "ECONNREFUSED", "ETIMEDOUT", "ENOTFOUND", "EAI_AGAIN",
                 "EPIPE", "EHOSTUNREACH"}
  \/ e.message.inner \in {"request timeout", "socket hang up", "connect ETIMEDOUT 1.2.3.4"}

\* C3: a call whose transport failed k <= maxRetries times, each time with a
\* retryable error, has not given up; and a call that returned success after
\* k failed attempts has invoked the transport exactly k + 1 times.
C3_RetryThenSucceed ==
  \A c \in Callers :
    LET k == call[c]
    IN /\ k.pc = "done" /\ k.result.success
            => k.calls = k.failed + 1 /\ k.failed <= maxRetries
       /\ k.failed \in 1..maxRetries /\ RetryableClass(k.fault) /\ k.pc = "done"
            => k.result.success

\* the transport failed twice, then succeeded: success after three transport calls
C3_Witness ==
  \E c \in Callers :
    /\ call[c].pc = "done" /\ call[c].result.success
    /\ call[c].failed = 2 /\ call[c].calls = 3 /\ call[c].fault.status = 503

\* C4: once an attempt has failed with a non-retryable error the call is over:
\* it has thrown, no sleep was started and no transport call was made after
\* that failure (after a first-attempt failure: exactly one transport call).
C4_NonRetryableStops ==
  \A c \in Callers :
    LET k == call[c]
    IN k.failed >= 1 /\ ~RetryableClass(k.fault)
         => /\ k.pc = "done" /\ ~k.result.success
            /\ k.calls = k.failed
            /\ k.sleeps = k.failed - 1

\* a first attempt failed with status 400: one transport call, no sleep
C4_Witness ==
  \E c \in Callers :
    /\ call[c].pc = "done" /\ call[c].fault.status = 400
    /\ call[c].failed = 1 /\ call[c].calls = 1 /\ call[c].sleeps = 0

\* C5: a call makes at most maxRetries + 1 transport calls and at most
\* maxRetries sleeps; after maxRetries + 1 failed attempts it is over, with
\* no sleep after the last attempt, and what it throws is the translation
\* of the error of the last attempt.
C5_BoundedAttempts ==
  \A c \in Callers :
    LET k == call[c]
    IN /\ k.calls <= maxRetries + 1
       /\ k.sleeps <= maxRetries
       /\ k.failed = maxRetries + 1
            => /\ k.pc = "done" /\ ~k.result.success
               /\ k.calls = maxRetries + 1 /\ k.sleeps = maxRetries
               /\ k.result.error = translateError(k.fault)

\* every attempt of a call failed with a retryable error
C5_Witness ==
  \E c \in Callers :
    /\ call[c].pc = "done" /\ call[c].failed = maxRetries + 1
    /\ RetryableClass(call[c].fault)

\* the requests the validation is to refuse: no or a blank prompt, a prompt
\* or system prompt that is too long, a model outside the allow-list, a
\* maxTokens that is no number or not positive, a temperature that is no
\* number or outside [0, 1], a system prompt that is given and no string
RefusedRequest(o) ==
  LET numeric(v) == v.t \in {"number", "numstring", "huge"}
  IN \/ ~IsString(o.prompt) \/ o.prompt.body = 0
     \/ Length(o.prompt) > maxPromptLength
     \/ o.model # Undefined /\ o.model.name \notin validModels
     \/ o.maxTokens # Undefined
          /\ (~numeric(o.maxTokens) \/ (o.maxTokens.t # "huge" /\ o.maxTokens.milli <= 0))
     \/ o.temperature # Undefined
          /\ ( \/ ~numeric(o.temperature) \/ o.temperature.t = "huge"
               \/ o.temperature.milli < 0 \/ o.temperature.milli > 1000 )
     \/ Truthy(o.systemPrompt)
          /\ (~IsString(o.systemPrompt) \/ Length(o.systemPrompt) > maxSystemPromptLength)
\* the call k has thrown a validation error
ValidationFailure(k) ==
  /\ k.pc = "done"
  /\ ~k.result.success
  /\ k.result.error.message.id \in
       {"PromptRequired", "PromptTooLong", "InvalidModel", "MaxTokensInvalid",
        "TemperatureInvalid", "SystemPromptNotString", "SystemPromptTooLong"}

\* C6: a call with a request that validation refuses throws a validation
\* error, makes no transport call and leaves the breaker and the usage
\* tracker as they were, in whatever state the breaker is.
C6_ValidationFailureTouchesNothing ==
  [][\A c \in Callers :
       /\ StartStep(c) /\ RefusedRequest(call'[c].opts) => ValidationFailure(call'[c])
       /\ StartStep(c) /\ ValidationFailure(call'[c])
            => /\ call'[c].calls = 0 /\ sent' = sent
               /\ circuitBreaker' = circuitBreaker
               /\ tokenTracker' = tokenTracker]_vars

\* a temperature out of range was refused while the breaker was Open
C6_Witness ==
  \E c \in Callers :
    /\ ValidationFailure(call[c])
    /\ call[c].result.error.message.id = "TemperatureInvalid"
    /\ call[c].opts.temperature = Num(1500)
    /\ circuitBreaker.state = "OPEN"

\* C7: for a requested maxTokens that is a whole number >= 1, the max_tokens
\* of every transport call is the lesser of the request and the hard ceiling
\* (the ceiling itself for every request above it), and the call is not
\* refused for its maxTokens.
C7_MaxTokensClamped ==
  \A c \in Callers :
    LET k == call[c]
        m == k.opts.maxTokens
        lesser == IF m.t = "huge" THEN hardMaxTokens
                  ELSE Min(m.milli \div 1000, hardMaxTokens)
    IN \/ m.t = "huge"
       \/ m.t \in {"number", "numstring"} /\ m.milli >= 1000 /\ m.milli % 1000 = 0
       => /\ k.calls > 0 => k.req.max_tokens = lesser
          /\ ~(k.pc = "done" /\ k.result.error.message.id = "MaxTokensInvalid")

\* C8: the statistics are the sums of the usage of the successful results of
\* the window, and their number, whatever the interleaving of the calls.
C8_NoLostUpdate ==
  getStats(tokenTracker) =
    [inputTokens |-> usageLog.input,
     outputTokens |-> usageLog.output,
     totalTokens |-> usageLog.input + usageLog.output,
     requestCount |-> usageLog.results]

\* two successful calls reported (10, 5) and (20, 15)
C8_Witness ==
  /\ usageLog = [input |-> 30, output |-> 20, results |-> 2]
  /\ getStats(tokenTracker).totalTokens = 50
  /\ \A c \in Callers : call[c].pc = "done" /\ call[c].result.success

\* C10: a call that reaches the Open breaker before the cooldown is over is
\* rejected with the circuit-open error; the wait it names is the rest of
\* the cooldown, resetTimeoutMs - (now - lastFailureTime), in whole seconds
\* rounded up (more than 0, at most the cooldown); the breaker is unchanged.
C10_RejectionWithinCooldown ==
  [][\A c \in Callers :
       ( /\ StartStep(c)
         /\ ValidationError(call'[c].opts) = NoMsg
         /\ circuitBreaker.state = "OPEN"
         /\ now - ToNumber(circuitBreaker.lastFailureTime) < resetTimeoutMs )
       => LET n == call'[c].result.error.message.n
              rest == resetTimeoutMs - (now - ToNumber(circuitBreaker.lastFailureTime))
          IN /\ Rejected(call'[c])
             /\ 1000 * n >= rest /\ 1000 * (n - 1) < rest
             /\ n > 0 /\ 1000 * n <= resetTimeoutMs
             /\ circuitBreaker' = circuitBreaker]_vars

\* a call was rejected 29.5 s into the cooldown: wait 1 second
C10_Witness ==
  \E c \in Callers :
    /\ Rejected(call[c])
    /\ call[c].result.error.message.n = 1
    /\ circuitBreaker.state = "OPEN"
    /\ now - ToNumber(circuitBreaker.lastFailureTime) = 29500

\* a call of caller c returns a success result in this step
SuccessReport(c) == call[c].pc = "awaitTransport" /\ call'[c].pc = "done" /\ call'[c].result.success

\* C11: with the breaker HALF_OPEN, a success report leaves it CLOSED with
\* failures = 0, and a failure report leaves it OPEN with lastFailureTime the
\* time of that failure.
C11_HalfOpenTransitions ==
  [][circuitBreaker.state = "HALF_OPEN"
       => /\ (\E c \in Callers : SuccessReport(c))
               => circuitBreaker'.state = "CLOSED" /\ circuitBreaker'.failures = 0
          /\ FailureReport
               => /\ circuitBreaker'.state = "OPEN"
                  /\ circuitBreaker'.lastFailureTime = Some(now')]_vars

\* the trial call failed after the cooldown: OPEN again, the cooldown restarted
C11_Witness ==
  \E c \in Callers :
    /\ call[c].trial /\ call[c].pc = "done" /\ call[c].failed = 1
    /\ circuitBreaker.state = "OPEN"
    /\ circuitBreaker.failures = threshold + 1
    /\ circuitBreaker.lastFailureTime = Some(now)
    /\ now >= resetTimeoutMs

\* C12 as stated: the stopReason of a successful result is one of normal-stop,
\* max-tokens-truncated and other; it is max-tokens-truncated when the
\* transport reported "max_tokens"; inputTokens and outputTokens are those of
\* the transport's usage.
C12_StopReasonEnumerated ==
  \A c \in Callers :
    LET k == call[c]
    IN k.pc = "done" /\ k.result.success
         => /\ k.result.metadata.stopReason \in
                 {"normal-stop", "max-tokens-truncated", "other"}
            /\ k.response.stop_reason = "max_tokens"
                 => k.result.metadata.stopReason = "max-tokens-truncated"
            /\ k.response.hasUsage
                 => /\ k.result.metadata.inputTokens = k.response.input_tokens
                    /\ k.result.metadata.outputTokens = k.response.output_tokens

\* C12, amended: the stopReason of a successful result is the transport's
\* stop_reason itself; the result is flagged truncated exactly when that is
\* "max_tokens"; inputTokens and outputTokens are those of the transport's
\* usage, 0 when the response carries none.
C12_StopReasonEchoed ==
  \A c \in Callers :
    LET k == call[c]
        m == k.result.metadata
    IN k.pc = "done" /\ k.result.success
         => /\ m.stopReason = k.response.stop_reason
            /\ m.truncated <=> k.response.stop_reason = "max_tokens"
            /\ m.inputTokens = (IF k.response.hasUsage THEN k.response.input_tokens ELSE 0)
            /\ m.outputTokens = (IF k.response.hasUsage THEN k.response.output_tokens ELSE 0)

\* the transport reported "max_tokens" with usage (20, 15)
C12_Witness ==
  \E c \in Callers :
    /\ call[c].pc = "done" /\ call[c].result.success
    /\ call[c].response = Response(TRUE, 20, 15, "max_tokens")
    /\ call[c].result.metadata.stopReason = "max_tokens"
    /\ call[c].result.metadata.truncated
    /\ call[c].result.metadata.inputTokens = 20

\* C13: the error a call throws after an upstream failure carries no text of
\* the provider: it is not the provider's error itself, it embeds no provider
\* text, and it is the same whatever the text of the provider's error.
C13_NoProviderText ==
  \A c \in Callers :
    LET k == call[c]
    IN k.pc = "done" /\ ~k.result.success /\ k.failed >= 1
         => /\ k.result.error.message.id # "provider"
            /\ k.result.error.message.inner = ""
            /\ \A text \in ProviderTexts :
                 translateError(ProviderError(k.fault.status, k.fault.code, text)).message
                   = k.result.error.message

\* the fixed messages that tell of a service unavailable after retries
AfterRetriesKinds == {"UnavailableAfterRetries", "RateLimitAfterRetries", "UnableToConnect"}

\* C14: a call whose every attempt failed with a transient error throws one of
\* the fixed "unavailable after retries" errors, and a call does not give up
\* on a transient failure while retries remain.
C14_TransientSurfacesUnavailable ==
  \A c \in Callers :
    LET k == call[c]
    IN /\ k.pc = "done" /\ k.failed = maxRetries + 1 /\ RetryableClass(k.fault)
            => /\ ~k.result.success
               /\ k.result.error.message.id \in AfterRetriesKinds
               /\ k.result.error.message.inner = ""
       /\ k.pc = "done" /\ k.failed \in 1..maxRetries /\ RetryableClass(k.fault)
            => k.result.success

\* C15: without provider credentials, a call with a valid request throws the
\* configuration error, unchanged, and has made no transport call and started
\* no sleep.
C15_MissingCredentialsFailFast ==
  \A c \in Callers :
    LET k == call[c]
    IN ~apiKey /\ k.pc # "idle" /\ ValidationError(k.opts) = NoMsg
         => /\ k.pc = "done" /\ ~k.result.success
            /\ k.result.error = OwnError(Msg("ApiKeyNotConfigured", 0, ""))
            /\ k.calls = 0 /\ k.sleeps = 0

\* C16: the usage window rolls over only when usage is recorded: a recording
\* at a time after windowStartTime + windowDurationMs leaves exactly the
\* recorded values, requestCount = 1 and the window started at that time; a
\* recording up to that time adds to the totals; apart from resetTokenStats
\* no other step changes the tracker.
C16_LazyRollover ==
  [][/\ \A c \in Callers :
          SuccessReport(c)
            => LET m == call'[c].result.metadata
               IN IF now > tokenTracker.windowStartTime + windowDurationMs
                  THEN tokenTracker' = [totalInputTokens |-> m.inputTokens,
                                        totalOutputTokens |-> m.outputTokens,
                                        requestCount |-> 1,
                                        windowStartTime |-> now]
                  ELSE tokenTracker' =
                         [totalInputTokens |-> tokenTracker.totalInputTokens + m.inputTokens,
                          totalOutputTokens |-> tokenTracker.totalOutputTokens + m.outputTokens,
                          requestCount |-> tokenTracker.requestCount + 1,
                          windowStartTime |-> tokenTracker.windowStartTime]
     /\ tokenTracker' # tokenTracker
          => (\E c \in Callers : SuccessReport(c)) \/ ResetTokenStats]_vars

\* a result with usage (20, 15) was recorded just after the end of the window
\* in which a result with usage (10, 5) had been recorded
C16_Witness ==
  /\ tokenTracker = [totalInputTokens |-> 20, totalOutputTokens |-> 15,
                     requestCount |-> 1, windowStartTime |-> windowDurationMs + 1]
  /\ \E c \in Callers : call[c].pc = "done" /\ call[c].result.metadata.inputTokens = 10
  /\ \E c \in Callers : call[c].pc = "done" /\ call[c].result.metadata.inputTokens = 20

\* C17: the tracker's counters change only in a step in which a call returns
\* a success result (or by resetTokenStats), and a call that returns a success
\* result has recorded usage once.
C17_UsageOnlyOnSuccess ==
  [][/\ tokenTracker' # tokenTracker
          => (\E c \in Callers : SuccessReport(c)) \/ ResetTokenStats
     /\ \A c \in Callers :
          SuccessReport(c)
            => tokenTracker'.requestCount \in {tokenTracker.requestCount + 1, 1}]_vars

\* C18: a call of getTokenStats or of getCircuitBreakerState leaves the
\* breaker and the usage tracker as they were: an OPEN breaker stays OPEN
\* also after the cooldown, an elapsed window is not rolled over.
C18_GettersReadOnly ==
  [][observed' # observed
       => /\ circuitBreaker' = circuitBreaker
          /\ tokenTracker' = tokenTracker]_vars

\* both getters were called, with the breaker OPEN and its cooldown over, and
\* with usage recorded in a window that was over: nothing moved
C18_Witness ==
  /\ observed.breakerAt = now /\ observed.statsAt = now
  /\ observed.breaker.state = "OPEN"
  /\ now - ToNumber(observed.breaker.lastFailureTime) >= resetTimeoutMs
  /\ circuitBreaker.state = "OPEN"
  /\ observed.stats.requestCount = 1
  /\ now - tokenTracker.windowStartTime > windowDurationMs
  /\ tokenTracker.requestCount = 1

\* C19: once the timeout of an HTTP request has fired while its call was in
\* flight, no further transport call is started for that call, and the
\* request gets one response, the timeout (408), and no second one.
C19_TimeoutAbortsCall ==
  [][\A c \in Callers :
       /\ call'[c].responses <= 1
       /\ call[c].viaHttp /\ call[c].status = 408 /\ call'[c].deadline = call[c].deadline
            => /\ call'[c].status = 408
               /\ call'[c].calls = call[c].calls]_vars

\* C20: the service works with the configured parameters: a failure report
\* leaves the breaker OPEN exactly when the failures have reached the
\* configured threshold, a call that finds the breaker OPEN is rejected
\* exactly when the configured cooldown is not over, and a call makes at most
\* the configured maxRetries + 1 transport calls.
C20_ConfiguredParametersUsed ==
  [][/\ FailureReport
          => (circuitBreaker'.state = "OPEN"
                <=> circuitBreaker'.failures >= config.circuitBreaker.failureThreshold)
     /\ \A c \in Callers :
          /\ ( /\ StartStep(c)
               /\ ValidationError(call'[c].opts) = NoMsg
               /\ circuitBreaker.state = "OPEN" )
             => (Rejected(call'[c])
                   <=> now - ToNumber(circuitBreaker.lastFailureTime)
                         < config.circuitBreaker.resetTimeoutMs)
          /\ call'[c].calls <= config.retry.maxRetries + 1]_vars

\* C21: no transport call is started while the breaker is Open: at every step
\* that invokes the transport (a first attempt or a retry, of any caller) the
\* breaker, after the step's own canRequest, is not OPEN.
C21_NoTransportWhileOpen ==
  [][sent' = sent + 1 => circuitBreaker'.state # "OPEN"]_vars

\* C22: in production with REQUIRE_API_KEY enabled, a request for
\* /api/stats that presents no key or a key that is not the configured one
\* (apiKeyAuth would throw 401) is answered with 401 and no statistics.
C22_StatsOnlyWithValidKey ==
  LET h == observed.http
  IN ( /\ h.status # 0
       /\ config.server.isProduction /\ config.security.requireApiKey
       /\ apiKeyAuth(h.req) = 401 )
     => h.status = 401 /\ h.stats = Null

\* the call k was made by the handler of a route for a request that passed
\* the validation chain
Forwarded(k) == k.endpoint # "" /\ k.pc # "idle" /\ ~validationFails(k.params)

\* C23: on every emotion endpoint, a temperature that passes the validation,
\* 0 included, is the temperature of the options given to sendMessage and of
\* the transport request.
C23_TemperatureForwarded ==
  \A c \in Callers :
    LET k == call[c]
    IN ( /\ Forwarded(k)
         /\ k.endpoint \in EmotionEndpoints
         /\ k.params.temperature # Undefined )
       => /\ k.opts.temperature = Num(k.params.temperature.milli)
          /\ k.calls >= 1 => k.req.temperature = k.params.temperature.milli

\* C24: when the request gives no temperature or no maxTokens, the options
\* given to sendMessage carry the default of the endpoint: temperature 0.9 on
\* /api/affirmations/negative, 0.8 and 200 tokens on motivational-quote, 0.3
\* and 300 tokens on analyze, 500 tokens on support.
C24_EndpointDefaults ==
  \A c \in Callers :
    LET k == call[c]
        noTemperature == Forwarded(k) /\ k.params.temperature = Undefined
        noMaxTokens == Forwarded(k) /\ k.params.maxTokens = Undefined
    IN /\ noTemperature /\ k.endpoint = "/api/affirmations/negative"
            => k.opts.temperature = Num(900)
       /\ noTemperature /\ k.endpoint = "/api/emotions/motivational-quote"
            => k.opts.temperature = Num(800)
       /\ noTemperature /\ k.endpoint = "/api/emotions/analyze"
            => k.opts.temperature = Num(300)
       /\ noMaxTokens /\ k.endpoint = "/api/emotions/motivational-quote"
            => k.opts.maxTokens = Num(200000)
       /\ noMaxTokens /\ k.endpoint = "/api/emotions/analyze"
            => k.opts.maxTokens = Num(300000)
       /\ noMaxTokens /\ k.endpoint = "/api/emotions/support"
            => k.opts.maxTokens = Num(500000)

\* C25: in every reachable state the breaker is CLOSED exactly when failures
\* is below the threshold, and while it is OPEN or HALF_OPEN lastFailureTime
\* is not null.
C25_BreakerStateInvariant ==
  /\ circuitBreaker.state \in {"CLOSED", "OPEN", "HALF_OPEN"}
  /\ circuitBreaker.state = "CLOSED" <=> circuitBreaker.failures < threshold
  /\ circuitBreaker.state \in {"OPEN", "HALF_OPEN"} => circuitBreaker.lastFailureTime # Null

\* the breaker is Open again after the trial call of the Half-Open state has
\* failed: failures is beyond the threshold
C25_Witness ==
  /\ circuitBreaker.state = "OPEN"
  /\ circuitBreaker.failures > threshold
  /\ \E c \in Callers : call[c].trial /\ call[c].pc = "done" /\ ~call[c].result.success

\* C26: a step that takes the breaker out of OPEN is either an invocation of
\* sendMessage that arrives when the cooldown is over (to HALF_OPEN) or the
\* administrative reset (to CLOSED); no outcome report of a call in flight
\* closes an OPEN breaker.
C26_OpenLeftOnlyByAdmissionOrReset ==
  [][(circuitBreaker.state = "OPEN" /\ circuitBreaker'.state # "OPEN")
       => \/ /\ \E c \in Callers : StartStep(c)
             /\ now - ToNumber(circuitBreaker.lastFailureTime) >= resetTimeoutMs
             /\ circuitBreaker'.state = "HALF_OPEN"
          \/ ResetCircuitBreaker]_vars

\* the breaker is OPEN, the credentials are configured, the upstream succeeds
\* from here on, and the behaviour has two more calls and one more clock step
Recoverable ==
  /\ apiKey
  /\ circuitBreaker.state = "OPEN"
  /\ circuitBreaker.failures = MaxRecoveryFailures
  /\ started + 2 <= MaxRecoveryStarts
  /\ ticks + 1 <= MaxRecoveryTicks

\* C27: when the breaker is OPEN, time keeps advancing, calls keep arriving
\* and the upstream succeeds from then on, a call is eventually admitted
\* (HALF_OPEN) and the breaker is eventually CLOSED with failures = 0.
C27_RecoveryLiveness ==
  /\ Recoverable ~> circuitBreaker.state = "HALF_OPEN"
  /\ Recoverable ~> (circuitBreaker.state = "CLOSED" /\ circuitBreaker.failures = 0)

\* the breaker is CLOSED again with failures 0 by the success of a trial call
\* that was admitted after a trial call had failed
C27_Witness ==
  /\ circuitBreaker.state = "CLOSED" /\ circuitBreaker.failures = 0
  /\ call[1].trial /\ call[1].pc = "done" /\ call[1].result.success
  /\ ticks = 2

\* min(1000 * 2^i, 10000), the delay before the jitter
Backoff(i) == Min(1000 * Pow(2, i), 10000)

\* C28: the delay of the sleep that follows the failed attempt i, for i in
\* 0..maxRetries-1, is at least min(1000 * 2^i, 10000) ms and at most 11/10 of
\* it, so at most 11000 ms, and min(1000 * 2^i, 10000) does not decrease with i.
C28_DelayBounds ==
  [][\A c \in Callers :
       (call[c].pc = "awaitTransport" /\ call'[c].pc = "sleeping")
         => LET i == call[c].attempt
                d == call'[c].wakeAt - now
            IN /\ i \in 0..(maxRetries - 1)
               /\ Backoff(i) <= d
               /\ d <= (Backoff(i) * 11) \div 10
               /\ d <= 11000
               /\ i > 0 => Backoff(i - 1) <= Backoff(i)]_vars

\* the sleep after the third failed attempt, with the largest jitter
C28_Witness ==
  \E c \in Callers :
    /\ call[c].pc = "sleeping" /\ call[c].attempt = maxRetries - 1
    /\ call[c].wakeAt - now = 4399

\* C29: the parameters of every transport call are validated: the model is
\* in the allow-list, max_tokens is in 1..hardMaxTokens, the temperature is in
\* [0, 1], the user message is the trimmed prompt, a string of 1 to
\* maxPromptLength characters, and a system prompt is sent only when the one
\* given is a non-blank string of at most maxSystemPromptLength characters.
C29_TransportParamsValidated ==
  \A c \in Callers :
    LET k == call[c]
    IN k.calls >= 1
         => /\ k.req.model.t = "string" /\ k.req.model.name \in validModels
            /\ 1 <= k.req.max_tokens /\ k.req.max_tokens <= hardMaxTokens
            /\ 0 <= k.req.temperature /\ k.req.temperature <= 1000
            /\ IsString(k.opts.prompt) /\ k.req.content = Trim(k.opts.prompt)
            /\ 1 <= Length(k.req.content) /\ Length(k.req.content) <= maxPromptLength
            /\ k.req.system # Undefined
                 => /\ IsString(k.opts.systemPrompt)
                    /\ k.req.system = Trim(k.opts.systemPrompt)
                    /\ 1 <= Length(k.req.system)
                    /\ Length(k.opts.systemPrompt) <= maxSystemPromptLength

\* a transport call was made for a request that asked for more tokens than
\* the hard cap
C29_Witness ==
  \E c \in Callers :
    /\ call[c].calls >= 1
    /\ call[c].opts.maxTokens.milli > 1000 * hardMaxTokens
    /\ call[c].req.max_tokens = hardMaxTokens

\* C30: a call that fails because the provider credentials are missing (no
\* transport call is made) leaves the breaker as it was: state, failures and
\* lastFailureTime are unchanged.
C30_MissingCredentialsNotCounted ==
  [][\A c \in Callers :
       ( /\ StartStep(c)
         /\ call'[c].pc = "done"
         /\ call'[c].calls = 0
         /\ call'[c].result.error.message.id = "ApiKeyNotConfigured" )
       => circuitBreaker' = circuitBreaker]_vars

====
